---------------------------- MODULE Spec2Model ----------------------------
(***************************************************************************)
(* PF-SimPy: assets advancing through a phase pipeline, simulated with     *)
(* SimPy (src/simpy6.py; src/simpy4.py, src/simpy2.py and src/simpy1.py    *)
(* are earlier versions of the same asset_trajectory / run_simulation).    *)
(*                                                                         *)
(* One call of run_simulation is a "run" r.  Its state is the SimPy        *)
(* environment it builds (now, the event queue, the event id counter), the *)
(* frames of the asset_trajectory generators, and the results dictionary   *)
(* and the records list that the generators write.  The SimPy environment  *)
(* keeps its events in a heap keyed by (time, priority, event id):         *)
(* env.process schedules an Initialize event (priority URGENT) at the      *)
(* current time, env.timeout(d) schedules a Timeout (priority NORMAL) at   *)
(* now + d, and a generator that returns schedules its Process event       *)
(* (priority NORMAL) at the current time.  env.run() pops the least key    *)
(* until the heap is empty.                                                *)
(*                                                                         *)
(* Time is in weeks.  random.uniform(0, 52) and random.random() are not    *)
(* seeded anywhere in the source: every draw is a nondeterministic choice  *)
(* from a finite sample of its range (UniformDraws, RandomDraws).          *)
(* Probabilities and random.random() are in hundredths (0.95 is 95).       *)
(***************************************************************************)
EXTENDS Integers, Sequences, FiniteSets, TLC

\* ----------------------------------------------------------------- bounds
\* num_assets passed to run_simulation ranges over 0..MaxAssets
MaxAssets == 2
\* replications submitted by the orchestrator (NUM_REPLICATIONS in the source)
MaxReplications == 2
\* assets per replication in an orchestrated batch (TOTAL_ASSETS in the source)
OrchAssets == 1
\* assets of each of the two runs compared for determinism
RerunAssets == 1

\* ------------------------------------------------------ program constants
NUM_YEARS == 10
ASSETS_PER_YEAR == 50
WEEKS_PER_YEAR == 52
POOL_CAP == 8
\* SimPy's event priorities
URGENT == 0
NORMAL == 1

SIMULATION_DETAILS_phases ==
  << [name |-> "ID1",  duration |-> 10,  success_prob |-> 95],
     [name |-> "ID2",  duration |-> 12,  success_prob |-> 90],
     [name |-> "Ph1",  duration |-> 52,  success_prob |-> 50],
     [name |-> "Ph2A", duration |-> 52,  success_prob |-> 60],
     [name |-> "Ph2B", duration |-> 52,  success_prob |-> 70],
     [name |-> "Ph3",  duration |-> 104, success_prob |-> 50],
     [name |-> "File", duration |-> 26,  success_prob |-> 90] >>

\* sample values of random.uniform(0, 52): the low end, the top of the window,
\* and two offsets that make phase ends of different assets coincide
\* (12 = 22 - 10, 22 = 10 + 12 in the phase table)
UniformDraws == {0, 12, 22, 51}
\* sample values of random.random(), in hundredths of [0, 1)
RandomDraws == {0, 50, 99}
\* sample asset ids: the first and the last of cohorts 0, 1 and 9, and the
\* first id past NUM_YEARS * ASSETS_PER_YEAR
AssetIds == {1, ASSETS_PER_YEAR, ASSETS_PER_YEAR + 1, 2 * ASSETS_PER_YEAR,
             2 * ASSETS_PER_YEAR + 1, NUM_YEARS * ASSETS_PER_YEAR,
             NUM_YEARS * ASSETS_PER_YEAR + 1}
\* success probabilities, in hundredths: those of the phase table, 0.0 and 1.0
Probabilities == {0, 50, 60, 70, 90, 95, 100}
\* a phase dict of SIMULATION_DETAILS["phases"]
Phase(name, duration, success_prob) ==
  [name |-> name, duration |-> duration, success_prob |-> success_prob]
\* other contents of SIMULATION_DETAILS["phases"]: tables of one, two and
\* three phases that always succeed, a phase that always fails, and tables
\* with no phase, a zero duration, a probability above 1.0 and below 0.0, a
\* name used twice and an empty name
PhaseTables ==
  { << Phase("P1", 10, 100) >>,
    << Phase("P1", 10, 100), Phase("P2", 5, 100) >>,
    << Phase("P1", 10, 100), Phase("P2", 5, 100), Phase("P3", 7, 100) >>,
    << Phase("P1", 10, 0) >>,
    << Phase("P1", 10, 100), Phase("P2", 5, 0), Phase("P3", 7, 100) >>,
    << >>,
    << Phase("P1", 0, 100) >>,
    << Phase("P1", 10, 150) >>,
    << Phase("P1", 10, -50) >>,
    << Phase("P1", 10, 100), Phase("P1", 5, 100) >>,
    << Phase("", 10, 100) >> }
\* values of os.cpu_count(); 0 stands for None, 16 is above the pool's cap
CpuCounts == {0, 1, 2, 16}

VARIABLES
  phases,          \* SIMULATION_DETAILS["phases"]
  num_assets,      \* run -> argument num_assets
  replication_id,  \* run -> argument replication_id
  rpc,             \* run -> "unsubmitted" | "pending" | "active" | "returned" | "raised"
  next_asset,      \* run -> loop variable asset_id of run_simulation
  now,             \* run -> env.now
  queue,           \* run -> the environment's event heap, a set of events
  eid,             \* run -> the environment's event id counter
  gen,             \* run -> sequence (by asset id) of generator frames
  results,         \* run -> dict asset_id -> phase_results
  records,         \* run -> list of record dicts
  max_workers,     \* the pool's worker cap
  main_pc,         \* "direct" | "submit" | "collect" | "done" | "aborted"
  all_results,     \* list of {"replication", "results"}
  all_records,     \* the merged record table
  fn               \* one generator taken alone: its inputs, draws and locals

runvars == <<num_assets, replication_id, rpc, next_asset, now, queue, eid,
             gen, results, records>>
mainvars == <<max_workers, main_pc, all_results, all_records>>
vars == <<phases, runvars, mainvars, fn>>

Runs == DOMAIN rpc


\* ------------------------------------------------------- asset_trajectory
\* mutant of Year: the cohort is counted from asset id 0
YearFromZero(asset_id) == asset_id \div ASSETS_PER_YEAR

\* line 42: the cohort of an asset
Year(asset_id) == (asset_id - 1) \div ASSETS_PER_YEAR

\* line 43: each year is 52 weeks
YearStart(asset_id) == Year(asset_id) * WEEKS_PER_YEAR

\* line 44: start_time = year_start + random.uniform(0, 52)
StartTime(asset_id, draw) == YearStart(asset_id) + draw

\* mutant of DrawSuccess: a draw equal to the probability succeeds
DrawSuccessInclusive(u, success_prob) == u <= success_prob

\* line 58: success = random.random() < phase["success_prob"]
DrawSuccess(u, success_prob) == u < success_prob

\* line 59
Outcome(success) == IF success THEN "SUCCESS" ELSE "FAILURE"

\* mutant of NextIdx: the index skips a phase
NextIdxSkips(idx) == idx + 2

\* line 52: enumerate gives the next index
NextIdx(idx) == idx + 1

\* mutant of LoopContinues: the break on failure is missing
LoopIgnoresFailure(success, idx, table) == idx < Len(table)

\* mutant of LoopContinues: the loop stops one phase early
LoopStopsEarly(success, idx, table) == idx + 1 < Len(table) /\ success

\* lines 52-54: the for loop has a phase at idx, and the body does not break
LoopContinues(success, idx, table) == idx < Len(table) /\ success

\* mutant of PhaseResult: the phase's start is taken at its end
PhaseResultAtEnd(current_time, env_now, outcome) ==
  [start_time |-> env_now, end_time |-> env_now, outcome |-> outcome]

\* lines 62-66: the entry of phase_results
PhaseResult(current_time, env_now, outcome) ==
  [start_time |-> current_time, end_time |-> env_now, outcome |-> outcome]

\* lines 68-79: the record dict
NewRecord(rep, asset_id, idx, phase, current_time, env_now, outcome, start_time) ==
  [replication |-> rep,
   asset_id |-> asset_id,
   phase |-> phase.name,
   phase_idx |-> idx,
   phase_duration |-> phase.duration,
   phase_success_prob |-> phase.success_prob,
   phase_start_time |-> current_time,
   phase_end_time |-> env_now,
   phase_outcome |-> outcome,
   asset_init_time |-> start_time]

\* mutant of AdvanceCurrentTime: current_time is not updated
KeepCurrentTime(current_time, env_now) == current_time

\* line 80: current_time = env.now
AdvanceCurrentTime(current_time, env_now) == env_now

\* the frame of a generator that env.process has created and not yet started;
\* -1 stands for a local that is not bound yet
NewFrame ==
  [pc |-> "new", idx |-> -1, start_time |-> -1, current_time |-> -1,
   success |-> TRUE, phase_results |-> <<>>]

\* ------------------------------------------------------ simpy.Environment
\* mutant of EventBefore: ties in time are broken by asset id
EventBeforeByAsset(e, f) ==
  \/ e.time < f.time
  \/ e.time = f.time /\ e.asset < f.asset
  \/ e.time = f.time /\ e.asset = f.asset /\ e.eid < f.eid

\* the heap order of the environment: (time, priority, event id)
EventBefore(e, f) ==
  \/ e.time < f.time
  \/ e.time = f.time /\ e.priority < f.priority
  \/ e.time = f.time /\ e.priority = f.priority /\ e.eid < f.eid

\* mutant of NextEvent: first scheduled, first processed, whatever the time
NextEventFifo(q) == CHOOSE e \in q : \A f \in q \ {e} : e.eid < f.eid

\* env.run() -> env.step(): the event popped next
NextEvent(q) == CHOOSE e \in q : \A f \in q \ {e} : EventBefore(e, f)

\* mutant of Scheduled: the delay is dropped
ScheduledNow(r, env_now, priority, delay, kind, asset_id) ==
  [time |-> env_now, priority |-> priority, eid |-> eid[r],
   kind |-> kind, asset |-> asset_id]

\* env.schedule(event, priority, delay) of run r
Scheduled(r, env_now, priority, delay, kind, asset_id) ==
  [time |-> env_now + delay, priority |-> priority, eid |-> eid[r],
   kind |-> kind, asset |-> asset_id]

\* run r is inside env.run(): every process has been created
Running(r) == rpc[r] = "active" /\ next_asset[r] > num_assets[r]

\* one step of the environment of run r: ev is popped, the clock moves to its
\* time, and the resumed generator schedules the events of new
EnvStep(r, ev, new) ==
  /\ now' = [now EXCEPT ![r] = ev.time]
  /\ queue' = [queue EXCEPT ![r] = (@ \ {ev}) \cup new]
  /\ eid' = [eid EXCEPT ![r] = @ + Cardinality(new)]

\* ---------------------------------------------------------- run_simulation
\* line 88-89: env.process(asset_trajectory(env, asset_id, ...))
Spawn(r) ==
  /\ rpc[r] = "active"
  /\ next_asset[r] <= num_assets[r]
  /\ queue' = [queue EXCEPT ![r] =
                 @ \cup {Scheduled(r, now[r], URGENT, 0, "Initialize", next_asset[r])}]
  /\ eid' = [eid EXCEPT ![r] = @ + 1]
  /\ gen' = [gen EXCEPT ![r] = Append(@, NewFrame)]
  /\ next_asset' = [next_asset EXCEPT ![r] = @ + 1]
  /\ UNCHANGED <<fn, phases, num_assets, replication_id, rpc, now, results, records, mainvars>>

\* lines 41-45: the generator starts, draws its start time and waits for it
Initialize(r) ==
  /\ Running(r) /\ queue[r] # {}
  /\ LET ev == NextEvent(queue[r])
         a == ev.asset
     IN /\ ev.kind = "Initialize"
        /\ \E draw \in UniformDraws :
             LET st == StartTime(a, draw)
             IN /\ EnvStep(r, ev, {Scheduled(r, ev.time, NORMAL, st, "Timeout", a)})
                /\ gen' = [gen EXCEPT ![r][a] =
                             [@ EXCEPT !.pc = "arrival", !.start_time = st]]
  /\ UNCHANGED <<fn, phases, num_assets, replication_id, rpc, next_asset, results, records, mainvars>>

\* lines 46-57: the asset arrives and enters the loop over the phases
Arrive(r) ==
  /\ Running(r) /\ queue[r] # {}
  /\ LET ev == NextEvent(queue[r])
         a == ev.asset
         f == gen[r][a]
         first == NextIdx(-1)
     IN /\ ev.kind = "Timeout" /\ f.pc = "arrival"
        /\ IF LoopContinues(TRUE, first, phases)
           THEN /\ EnvStep(r, ev, {Scheduled(r, ev.time, NORMAL,
                                             phases[first + 1].duration, "Timeout", a)})
                /\ gen' = [gen EXCEPT ![r][a] =
                             [@ EXCEPT !.pc = "phase", !.idx = first,
                                       !.current_time = ev.time]]
                /\ UNCHANGED results
           ELSE /\ EnvStep(r, ev, {Scheduled(r, ev.time, NORMAL, 0, "Process", a)})
                /\ gen' = [gen EXCEPT ![r][a] =
                             [@ EXCEPT !.pc = "done", !.current_time = ev.time]]
                /\ results' = [results EXCEPT ![r] = (a :> f.phase_results) @@ @]
  /\ UNCHANGED <<fn, phases, num_assets, replication_id, rpc, next_asset, records, mainvars>>

\* lines 57-82: a phase ends; the outcome is drawn and recorded, and the
\* generator waits for the next phase or writes its results and returns
PhaseComplete(r) ==
  /\ Running(r) /\ queue[r] # {}
  /\ LET ev == NextEvent(queue[r])
         a == ev.asset
         f == gen[r][a]
     IN /\ ev.kind = "Timeout" /\ f.pc = "phase"
        /\ \E u \in RandomDraws :
             LET phase == phases[f.idx + 1]
                 success == DrawSuccess(u, phase.success_prob)
                 outcome == Outcome(success)
                 pres == (phase.name :> PhaseResult(f.current_time, ev.time, outcome))
                           @@ f.phase_results
                 rec == NewRecord(replication_id[r], a, f.idx, phase,
                                  f.current_time, ev.time, outcome, f.start_time)
                 ct == AdvanceCurrentTime(f.current_time, ev.time)
                 next == NextIdx(f.idx)
             IN /\ records' = [records EXCEPT ![r] = Append(@, rec)]
                /\ IF LoopContinues(success, next, phases)
                   THEN /\ EnvStep(r, ev, {Scheduled(r, ev.time, NORMAL,
                                                     phases[next + 1].duration,
                                                     "Timeout", a)})
                        /\ gen' = [gen EXCEPT ![r][a] =
                                     [@ EXCEPT !.idx = next, !.success = success,
                                               !.phase_results = pres,
                                               !.current_time = ct]]
                        /\ UNCHANGED results
                   ELSE /\ EnvStep(r, ev, {Scheduled(r, ev.time, NORMAL, 0, "Process", a)})
                        /\ gen' = [gen EXCEPT ![r][a] =
                                     [@ EXCEPT !.pc = "done", !.success = success,
                                               !.phase_results = pres,
                                               !.current_time = ct]]
                        /\ results' = [results EXCEPT ![r] = (a :> pres) @@ @]
  /\ UNCHANGED <<fn, phases, num_assets, replication_id, rpc, next_asset, mainvars>>

\* the Process event of a generator that has returned: nothing waits for it
ProcessEnd(r) ==
  /\ Running(r) /\ queue[r] # {}
  /\ LET ev == NextEvent(queue[r])
     IN /\ ev.kind = "Process"
        /\ EnvStep(r, ev, {})
  /\ UNCHANGED <<fn, phases, num_assets, replication_id, rpc, next_asset, gen, results,
                 records, mainvars>>

\* lines 90-91: env.run() finds the heap empty and run_simulation returns
Return(r) ==
  /\ Running(r) /\ queue[r] = {}
  /\ rpc' = [rpc EXCEPT ![r] = "returned"]
  /\ UNCHANGED <<fn, phases, num_assets, replication_id, next_asset, now, queue, eid, gen,
                 results, records, mainvars>>

\* lines 85-87: the state of a run at its call (env, results, records are new)
RunState(ids, assets, state) ==
  /\ num_assets = assets
  /\ replication_id = ids
  /\ rpc = state
  /\ next_asset = [r \in DOMAIN ids |-> 1]
  /\ now = [r \in DOMAIN ids |-> 0]
  /\ queue = [r \in DOMAIN ids |-> {}]
  /\ eid = [r \in DOMAIN ids |-> 0]
  /\ gen = [r \in DOMAIN ids |-> <<>>]
  /\ results = [r \in DOMAIN ids |-> <<>>]
  /\ records = [r \in DOMAIN ids |-> <<>>]

\* a run at its call, with the phase table of the source
RunInit(ids, assets, state) ==
  /\ phases = SIMULATION_DETAILS_phases
  /\ RunState(ids, assets, state)

\* no generator is taken alone
FnIdle ==
  fn = [pc |-> "idle", asset_id |-> 0, draw |-> 0, start_time |-> -1,
        u |-> 0, success_prob |-> 0, outcome |-> "none"]

\* no orchestrator: run_simulation is called directly
NoMain ==
  /\ max_workers = 0
  /\ main_pc = "direct"
  /\ all_results = <<>>
  /\ all_records = <<>>

\* one call run_simulation(n, 1) with n in 0..MaxAssets
Init ==
  /\ \E n \in 0..MaxAssets :
       RunInit((1 :> 1), (1 :> n), (1 :> "active"))
  /\ NoMain
  /\ FnIdle

Next ==
  \/ \E r \in Runs : Spawn(r)
  \/ \E r \in Runs : Initialize(r)
  \/ \E r \in Runs : Arrive(r)
  \/ \E r \in Runs : PhaseComplete(r)
  \/ \E r \in Runs : ProcessEnd(r)
  \/ \E r \in Runs : Return(r)

Spec == Init /\ [][Next]_vars


\* ------------------------------------------------------- two calls in a row
\* a second call of run_simulation with the arguments of the first begins
\* once the first has returned (lines 84-87)
Call(r) ==
  /\ rpc[r] = "pending"
  /\ main_pc = "direct"
  /\ \A q \in Runs : q < r => rpc[q] = "returned"
  /\ rpc' = [rpc EXCEPT ![r] = "active"]
  /\ UNCHANGED <<fn, phases, num_assets, replication_id, next_asset, now, queue, eid, gen,
                 results, records, mainvars>>

\* run_simulation(RerunAssets, 1) called twice, one call after the other
InitTwice ==
  /\ RunInit([r \in 1..2 |-> 1], [r \in 1..2 |-> RerunAssets],
             (1 :> "active") @@ (2 :> "pending"))
  /\ NoMain
  /\ FnIdle

NextTwice ==
  \/ Next
  \/ \E r \in Runs : Call(r)

SpecTwice == InitTwice /\ [][NextTwice]_vars

\* ------------------------------------------------------------ __main__
Min(a, b) == IF a <= b THEN a ELSE b

\* line 99: max_workers = min(8, os.cpu_count() or 1)
MaxWorkers(cpu_count) == Min(POOL_CAP, IF cpu_count = 0 THEN 1 ELSE cpu_count)

\* mutant of Extend: the first new row goes to the top of the table
ExtendSplits(table, recs) ==
  IF recs = <<>> THEN table ELSE <<Head(recs)>> \o table \o Tail(recs)

\* mutant of Extend: the merged table is replaced, not extended
ExtendOverwrites(table, recs) == recs

\* line 108: all_records.extend(records)
Extend(table, recs) == table \o recs

\* the runs whose future as_completed has yielded to the loop body
Yielded ==
  {r \in Runs : \E i \in 1..Len(all_results) :
                  all_results[i].replication = replication_id[r]}

\* lines 101-104: executor.submit(run_simulation, TOTAL_ASSETS, rep_id, VERBOSE)
Submit ==
  /\ main_pc = "submit"
  /\ LET r == CHOOSE q \in Runs :
                /\ rpc[q] = "unsubmitted"
                /\ \A p \in Runs : rpc[p] = "unsubmitted" => q <= p
     IN /\ rpc' = [rpc EXCEPT ![r] = "pending"]
        /\ main_pc' = IF \A p \in Runs \ {r} : rpc[p] # "unsubmitted"
                      THEN "collect" ELSE "submit"
  /\ UNCHANGED <<fn, phases, num_assets, replication_id, next_asset, now, queue, eid, gen,
                 results, records, max_workers, all_results, all_records>>

\* the calls that the pool's workers are executing
Executing == {q \in Runs : rpc[q] = "active"}

\* mutant of PoolHasFreeWorker: the pool starts a process for every call
PoolUnbounded == TRUE

\* line 100: ProcessPoolExecutor(max_workers=max_workers) has an idle worker
PoolHasFreeWorker == Cardinality(Executing) < max_workers

\* a free worker of the pool takes the oldest pending call and begins it
WorkerStart(r) ==
  /\ rpc[r] = "pending"
  /\ main_pc # "direct"
  /\ \A q \in Runs : q < r => rpc[q] # "pending"
  /\ PoolHasFreeWorker
  /\ rpc' = [rpc EXCEPT ![r] = "active"]
  /\ UNCHANGED <<fn, phases, num_assets, replication_id, next_asset, now, queue, eid, gen,
                 results, records, mainvars>>

\* the call fails in its worker: the future holds the exception and the
\* worker's environment, results and records are gone
WorkerRaise(r) ==
  /\ rpc[r] = "active"
  /\ main_pc # "direct"
  /\ rpc' = [rpc EXCEPT ![r] = "raised"]
  /\ next_asset' = [next_asset EXCEPT ![r] = 1]
  /\ now' = [now EXCEPT ![r] = 0]
  /\ queue' = [queue EXCEPT ![r] = {}]
  /\ eid' = [eid EXCEPT ![r] = 0]
  /\ gen' = [gen EXCEPT ![r] = <<>>]
  /\ results' = [results EXCEPT ![r] = <<>>]
  /\ records' = [records EXCEPT ![r] = <<>>]
  /\ UNCHANGED <<fn, phases, num_assets, replication_id, mainvars>>

\* lines 105-108: as_completed yields a finished future and its result is
\* appended to all_results and all_records
Collect(r) ==
  /\ main_pc = "collect"
  /\ rpc[r] = "returned"
  /\ r \notin Yielded
  /\ all_results' = Append(all_results,
                           [replication |-> replication_id[r], results |-> results[r]])
  /\ all_records' = Extend(all_records, records[r])
  /\ UNCHANGED <<fn, phases, runvars, max_workers, main_pc>>

\* lines 105-106: as_completed yields a failed future; future.result() raises
\* in the main process, nothing catches it, and the program ends in it
CollectRaise(r) ==
  /\ main_pc = "collect"
  /\ rpc[r] = "raised"
  /\ main_pc' = "aborted"
  /\ UNCHANGED <<fn, phases, runvars, max_workers, all_results, all_records>>

\* lines 121-126: every future has been yielded; the table is built
Finish ==
  /\ main_pc = "collect"
  /\ Yielded = Runs
  /\ main_pc' = "done"
  /\ UNCHANGED <<fn, phases, runvars, max_workers, all_results, all_records>>

\* lines 94-99: MaxReplications replications of OrchAssets assets each
InitOrch ==
  /\ RunInit([r \in 1..MaxReplications |-> r],
             [r \in 1..MaxReplications |-> OrchAssets],
             [r \in 1..MaxReplications |-> "unsubmitted"])
  /\ \E c \in CpuCounts : max_workers = MaxWorkers(c)
  /\ main_pc = "submit"
  /\ all_results = <<>>
  /\ all_records = <<>>
  /\ FnIdle

NextOrch ==
  \/ Next
  \/ Submit
  \/ \E r \in Runs : WorkerStart(r)
  \/ \E r \in Runs : WorkerRaise(r)
  \/ \E r \in Runs : Collect(r)
  \/ \E r \in Runs : CollectRaise(r)
  \/ Finish

SpecOrch == InitOrch /\ [][NextOrch]_vars

\* the main process and the pool's workers are never paused for ever
FairSpecOrch == SpecOrch /\ WF_vars(NextOrch)

\* -------------------------------------------------- other phase tables
\* one call run_simulation(n, 1), n in 1..MaxAssets, with another table in
\* SIMULATION_DETAILS
InitTables ==
  /\ phases \in PhaseTables
  /\ \E n \in 1..MaxAssets :
       RunState((1 :> 1), (1 :> n), (1 :> "active"))
  /\ NoMain
  /\ FnIdle

SpecTables == InitTables /\ [][Next]_vars

\* ------------------------------------------ src/simpy4.py, src/simpy2.py
\* sample values of random.uniform(0, d): the low end, three weeks, and the
\* samples of the 52-week window that lie below d
UniformDrawsBelow(d) == {x \in UniformDraws \cup {3} : x < d}

\* simpy4.py lines 36-37 (simpy2.py lines 27-28): the generator starts; the
\* window of its start time is the duration of the third phase of the table,
\* phases[2], and a table of fewer than three phases raises IndexError in
\* the generator, whose Process event is then scheduled as failed
Initialize4(r) ==
  /\ Running(r) /\ queue[r] # {}
  /\ LET ev == NextEvent(queue[r])
         a == ev.asset
     IN /\ ev.kind = "Initialize"
        /\ IF Len(phases) >= 3
           THEN \E st \in UniformDrawsBelow(phases[3].duration) :
                  /\ EnvStep(r, ev, {Scheduled(r, ev.time, NORMAL, st, "Timeout", a)})
                  /\ gen' = [gen EXCEPT ![r][a] =
                               [@ EXCEPT !.pc = "arrival", !.start_time = st]]
           ELSE /\ EnvStep(r, ev, {Scheduled(r, ev.time, NORMAL, 0, "Failed", a)})
                /\ gen' = [gen EXCEPT ![r][a] = [@ EXCEPT !.pc = "raised"]]
  /\ UNCHANGED <<fn, phases, num_assets, replication_id, rpc, next_asset, results, records, mainvars>>

\* env.step() pops the Process event of a generator that raised: nothing has
\* defused it, so env.run() and run_simulation raise the exception
\* (simpy4.py line 82, simpy2.py line 57)
ProcessFail(r) ==
  /\ Running(r) /\ queue[r] # {}
  /\ LET ev == NextEvent(queue[r])
     IN /\ ev.kind = "Failed"
        /\ EnvStep(r, ev, {})
  /\ rpc' = [rpc EXCEPT ![r] = "raised"]
  /\ UNCHANGED <<fn, phases, num_assets, replication_id, next_asset, gen, results,
                 records, mainvars>>

\* simpy4.py: run_simulation with its own asset_trajectory
Next4 ==
  \/ \E r \in Runs : Spawn(r)
  \/ \E r \in Runs : Initialize4(r)
  \/ \E r \in Runs : Arrive(r)
  \/ \E r \in Runs : PhaseComplete(r)
  \/ \E r \in Runs : ProcessEnd(r)
  \/ \E r \in Runs : ProcessFail(r)
  \/ \E r \in Runs : Return(r)

\* one call of simpy4.py's run_simulation(n, 1), n in 1..MaxAssets, with its
\* own table (simpy4.py lines 23-29, the table of simpy6.py) or another one
InitTables4 ==
  /\ phases \in PhaseTables \cup {SIMULATION_DETAILS_phases}
  /\ \E n \in 1..MaxAssets :
       RunState((1 :> 1), (1 :> n), (1 :> "active"))
  /\ NoMain
  /\ FnIdle

SpecTables4 == InitTables4 /\ [][Next4]_vars

\* ------------------------------------------- one generator taken alone
\* lines 42-45 of asset_trajectory for one asset id and one draw of
\* random.uniform(0, 52): the start time is computed and the arrival timeout
\* is created with it
FnStart ==
  /\ fn.pc = "start"
  /\ fn' = [fn EXCEPT !.pc = "started",
                      !.start_time = StartTime(fn.asset_id, fn.draw)]
  /\ UNCHANGED <<phases, runvars, mainvars>>

\* lines 58-59 of asset_trajectory for one draw u of random.random() and one
\* success probability
FnDraw ==
  /\ fn.pc = "draw"
  /\ fn' = [fn EXCEPT !.pc = "drawn",
                      !.outcome = Outcome(DrawSuccess(fn.u, fn.success_prob))]
  /\ UNCHANGED <<phases, runvars, mainvars>>

\* the generator of any sample asset id with any whole-week draw of the
\* window, or any draw in hundredths against any sample probability
InitFn ==
  /\ RunInit((1 :> 1), (1 :> 0), (1 :> "unsubmitted"))
  /\ NoMain
  /\ \/ \E a \in AssetIds : \E d \in 0..(WEEKS_PER_YEAR - 1) :
          fn = [pc |-> "start", asset_id |-> a, draw |-> d, start_time |-> -1,
                u |-> 0, success_prob |-> 0, outcome |-> "none"]
     \/ \E u \in 0..99 : \E sp \in Probabilities :
          fn = [pc |-> "draw", asset_id |-> 0, draw |-> 0, start_time |-> -1,
                u |-> u, success_prob |-> sp, outcome |-> "none"]

NextFn ==
  \/ FnStart
  \/ FnDraw

SpecFn == InitFn /\ [][NextFn]_vars

\* the event loop of one run never pauses while an event is pending
FairSpec == Spec /\ WF_vars(Next)

\* -------------------------------------------------------------- properties
\* the records of asset a in run r, in emission order
RecsOf(r, a) == SelectSeq(records[r], LAMBDA x : x.asset_id = a)

Assets(r) == 1..num_assets[r]

\* C1: in every run and for every asset, the asset's records in emission
\* order have phase_idx 0, 1, 2, ...: the k-th is the record of the k-th
\* phase of the table, so no phase is recorded twice and none is skipped.
C1_PhaseIndexSequence ==
  \A r \in Runs : \A a \in Assets(r) :
    LET s == RecsOf(r, a)
    IN \A k \in 1..Len(s) :
         s[k].phase_idx = k - 1 /\ s[k].phase = phases[k].name

\* an asset has gone through three phases while another asset recorded too
C1_Witness ==
  \E r \in Runs : \E a, b \in Assets(r) :
    a # b /\ Len(RecsOf(r, a)) >= 3 /\ Len(RecsOf(r, b)) >= 1

\* C2: a FAILURE record is the last record of its asset: once it has been
\* appended, no later record of that asset is appended in that run.
C2_FailureTruncates ==
  \A r \in Runs : \A a \in Assets(r) :
    LET s == RecsOf(r, a)
    IN \A k \in 1..(Len(s) - 1) : s[k].phase_outcome # "FAILURE"

\* a run has ended in which an asset failed and another asset recorded later
C2_Witness ==
  \E r \in Runs :
    /\ rpc[r] = "returned"
    /\ \E i, j \in 1..Len(records[r]) :
         /\ i < j
         /\ records[r][i].phase_outcome = "FAILURE"
         /\ records[r][j].asset_id # records[r][i].asset_id
         /\ records[r][j].phase_end_time > records[r][i].phase_end_time

\* C3: the phase-0 record of an asset starts at the asset's arrival time
\* (asset_init_time), and its phase-(k+1) record starts when its phase-k
\* record ends.
C3_StartTimesChain ==
  \A r \in Runs : \A a \in Assets(r) :
    LET s == RecsOf(r, a)
    IN \A k \in 1..Len(s) :
         /\ s[k].asset_init_time = gen[r][a].start_time
         /\ IF k = 1
            THEN s[k].phase_start_time = s[k].asset_init_time
            ELSE s[k].phase_start_time = s[k - 1].phase_end_time

\* the records of two assets interleave: a, b, a
C3_Witness ==
  \E r \in Runs : \E i, j, k \in 1..Len(records[r]) :
    /\ i < j /\ j < k
    /\ records[r][i].asset_id = records[r][k].asset_id
    /\ records[r][i].asset_id # records[r][j].asset_id

\* every asset of run r has a terminal record and nothing is pending
AllResolved(r) ==
  /\ queue[r] = {}
  /\ \A a \in Assets(r) :
       LET s == RecsOf(r, a)
       IN /\ Len(s) >= 1
          /\ \/ s[Len(s)].phase_outcome = "FAILURE"
             \/ /\ s[Len(s)].phase_outcome = "SUCCESS"
                /\ s[Len(s)].phase_idx = Len(phases) - 1

\* C4: every run terminates (its event queue becomes empty and
\* run_simulation returns), and when it has, the last record of every asset
\* is a FAILURE record or the SUCCESS record of the final phase.
C4_TerminatesResolved ==
  /\ <>(\A r \in Runs : rpc[r] = "returned")
  /\ [](\A r \in Runs : rpc[r] = "returned" => AllResolved(r))

\* a run has ended with one asset failed and one through the final phase
C4_Witness ==
  \E r \in Runs : \E a, b \in Assets(r) :
    /\ rpc[r] = "returned"
    /\ RecsOf(r, a)[Len(RecsOf(r, a))].phase_outcome = "FAILURE"
    /\ RecsOf(r, b)[Len(RecsOf(r, b))].phase_outcome = "SUCCESS"
    /\ RecsOf(r, b)[Len(RecsOf(r, b))].phase_idx = Len(phases) - 1

RecordsByEndTime ==
  \A r \in Runs : \A i, j \in 1..Len(records[r]) :
    i < j => records[r][i].phase_end_time <= records[r][j].phase_end_time

\* C5: within a run env.now never decreases from one processed event to
\* the next, and phase_end_time is non-decreasing along the record list.
C5_TimeMonotonic ==
  [][(\A r \in Runs : now'[r] >= now[r]) /\ RecordsByEndTime']_vars

\* a record of a higher asset id precedes, with an earlier end, a record of
\* a lower asset id: the list is in processing order, not in asset order
C5_Witness ==
  \E r \in Runs : \E i, j \in 1..Len(records[r]) :
    /\ i < j
    /\ records[r][i].asset_id > records[r][j].asset_id
    /\ records[r][i].phase_end_time < records[r][j].phase_end_time

\* C6 as claimed: two records with equal phase_end_time appear in ascending
\* asset_id order.
C6_TiesByAssetId ==
  \A r \in Runs : \A i, j \in 1..Len(records[r]) :
    (i < j /\ records[r][i].phase_end_time = records[r][j].phase_end_time)
      => records[r][i].asset_id < records[r][j].asset_id

\* the key of an event in the environment's heap, compared as the heap does
KeyLess(e, f) ==
  \/ e.time < f.time
  \/ e.time = f.time /\ e.priority < f.priority
  \/ e.time = f.time /\ e.priority = f.priority /\ e.eid < f.eid

RecordTiesByStart ==
  \A r \in Runs : \A i, j \in 1..Len(records[r]) :
    (i < j /\ records[r][i].phase_end_time = records[r][j].phase_end_time)
      => records[r][i].phase_start_time <= records[r][j].phase_start_time

\* C6 amended: events are processed in ascending (time, priority, scheduling
\* order): a processed event precedes, in that order, every event still
\* pending and every event scheduled by its processing; so of two records
\* with equal phase_end_time the one whose phase started first comes first.
C6_TiesByScheduling ==
  [][/\ \A r \in Runs : \A e \in queue[r] \ queue'[r] : \A f \in queue'[r] :
          KeyLess(e, f)
     /\ RecordTiesByStart']_vars

\* two phases end at the same time and the higher asset id is recorded first
C6_Witness ==
  \E r \in Runs : \E i, j \in 1..Len(records[r]) :
    /\ i < j
    /\ records[r][i].phase_end_time = records[r][j].phase_end_time
    /\ records[r][i].asset_id > records[r][j].asset_id

\* C8 as claimed: a run with no asset or with an empty phase table does not
\* return normally.
C8_EmptyInputRaises ==
  \A r \in Runs :
    (num_assets[r] = 0 \/ Len(phases) = 0) => rpc[r] # "returned"


\* C7 as claimed: two runs of run_simulation with the same phase table, the
\* same asset count and the same replication id return the same records.
C7_Deterministic ==
  \A r, q \in Runs :
    ( /\ rpc[r] = "returned" /\ rpc[q] = "returned"
      /\ num_assets[r] = num_assets[q]
      /\ replication_id[r] = replication_id[q] )
    => records[r] = records[q]

\* the rows of the merged table that carry the id of run r
MergedOf(r) ==
  SelectSeq(all_records, LAMBDA x : x.replication = replication_id[r])

\* C9: every record carries the id of the run that produced it; the merged
\* table holds, for every run whose result has been collected, exactly the
\* records that run returned, and nothing of any other run; when the loop
\* has ended, the ids in the merged table are exactly 1..N.
C9_MergedComplete ==
  /\ \A r \in Runs : \A i \in 1..Len(records[r]) :
       records[r][i].replication = replication_id[r]
  /\ \A r \in Runs :
       MergedOf(r) = IF r \in Yielded THEN records[r] ELSE <<>>
  /\ main_pc = "done" =>
       {all_records[i].replication : i \in 1..Len(all_records)} = 1..MaxReplications

\* the batch has ended, the last replication submitted was collected first,
\* and some replication returned more than one record
C9_Witness ==
  /\ main_pc = "done"
  /\ all_results[1].replication = MaxReplications
  /\ \E r \in Runs : Len(records[r]) >= 2

\* C10 as claimed: the failure of one run does not abort the batch, and
\* the records of every run that returned are in the merged table when the
\* main process has ended.
C10_FailureIsolated ==
  /\ main_pc # "aborted"
  /\ (main_pc = "done" /\ \E r \in Runs : rpc[r] = "raised") =>
       \A q \in Runs : rpc[q] = "returned" => MergedOf(q) = records[q]


\* C11: at every moment the number of replications executing in the pool is
\* at most max_workers, which is at least 1 and at most 8; and every
\* replication that has been submitted is eventually executed.
C11_WorkerCap ==
  /\ [](/\ Cardinality(Executing) <= max_workers
        /\ max_workers >= 1 /\ max_workers <= POOL_CAP)
  /\ \A r \in 1..MaxReplications :
       [](rpc[r] = "pending" => <>(rpc[r] \in {"active", "returned", "raised"}))

\* the cap binds: a submitted replication waits while every worker is busy
C11_Witness ==
  \E r \in Runs :
    /\ rpc[r] = "pending"
    /\ Cardinality(Executing) = max_workers

\* a phase table as the specification requires it
ValidTable(table) ==
  /\ Len(table) >= 1
  /\ \A i \in 1..Len(table) :
       /\ table[i].duration > 0
       /\ table[i].success_prob >= 0 /\ table[i].success_prob <= 100
       /\ table[i].name # ""
       /\ \A j \in 1..Len(table) : i # j => table[i].name # table[j].name

\* C12 as claimed: with an invalid phase table no event is processed, no
\* record is produced and the call does not return normally.
C12_InvalidTableRejected ==
  ~ValidTable(phases) =>
    \A r \in Runs :
      /\ \A a \in DOMAIN gen[r] : gen[r][a].pc = "new"
      /\ records[r] = <<>>
      /\ rpc[r] # "returned"

\* C13 as claimed: an asset id above NUM_YEARS * ASSETS_PER_YEAR gets no
\* arrival event, and no arrival is scheduled beyond the last year's window.
C13_OutOfRangeRejected ==
  fn.pc = "started" =>
    /\ fn.asset_id <= NUM_YEARS * ASSETS_PER_YEAR
    /\ fn.start_time <= NUM_YEARS * WEEKS_PER_YEAR

\* C14: asset i belongs to cohort y = (i - 1) div ASSETS_PER_YEAR, and its
\* arrival time lies in the window of that year:
\* y * 52 <= asset_init_time <= (y + 1) * 52.
C14_ArrivalInCohortWindow ==
  fn.pc = "started" =>
    LET y == (fn.asset_id - 1) \div ASSETS_PER_YEAR
    IN /\ y * 52 <= fn.start_time
       /\ fn.start_time <= (y + 1) * 52

\* the last asset of cohort 0 arrives in the last week of year 0, and the
\* first asset of cohort 1 at the very start of year 1
C14_Witness ==
  /\ fn.pc = "started"
  /\ \/ fn.asset_id = ASSETS_PER_YEAR /\ fn.start_time = 51
     \/ fn.asset_id = ASSETS_PER_YEAR + 1 /\ fn.start_time = 52

\* every phase of a table of at least one phase succeeds with probability 1.0
AllCertain(table) ==
  /\ Len(table) >= 1
  /\ \A i \in 1..Len(table) : table[i].success_prob = 100

\* the sum of the durations of the first k phases of a table
SumDurations(table, k) ==
  LET sum[i \in 0..Len(table)] ==
        IF i = 0 THEN 0 ELSE sum[i - 1] + table[i].duration
  IN sum[k]

\* C15 as claimed: with a table of at least one phase whose probabilities
\* are all 1.0, no generator and no run fails; the k-th record of an asset
\* that arrived at t is the SUCCESS record of phase k, from t + (sum of the
\* durations before k) to t + (sum of the durations up to k); and an asset
\* that has finished has one record per phase.
C15_CertainTableFullChain ==
  AllCertain(phases) =>
    \A r \in Runs :
      /\ rpc[r] # "raised"
      /\ \A a \in DOMAIN gen[r] :
           LET s == RecsOf(r, a)
           IN /\ gen[r][a].pc # "raised"
              /\ \A k \in 1..Len(s) :
                   LET t == s[k].asset_init_time
                   IN /\ s[k].phase_idx = k - 1
                      /\ s[k].phase_outcome = "SUCCESS"
                      /\ s[k].phase_start_time = t + SumDurations(phases, k - 1)
                      /\ s[k].phase_end_time = t + SumDurations(phases, k)
              /\ (gen[r][a].pc = "done" \/ rpc[r] = "returned") =>
                   Len(s) = Len(phases)

\* C16: the outcome of a phase completion is SUCCESS exactly when the draw u
\* of [0, 1) is strictly less than the success probability; so probability
\* 1.0 gives SUCCESS and probability 0.0 gives FAILURE for every draw.
C16_OutcomeByDraw ==
  fn.pc = "drawn" =>
    /\ fn.outcome \in {"SUCCESS", "FAILURE"}
    /\ fn.outcome = "SUCCESS" <=> fn.u < fn.success_prob
    /\ fn.success_prob = 100 => fn.outcome = "SUCCESS"
    /\ fn.success_prob = 0 => fn.outcome = "FAILURE"

\* a draw equal to the probability has failed
C16_Witness ==
  /\ fn.pc = "drawn"
  /\ fn.u = fn.success_prob
  /\ fn.u > 0
  /\ fn.outcome = "FAILURE"

\* C17: every record, SUCCESS or FAILURE, ends exactly its phase's duration
\* after it starts, whatever other assets do in between.
C17_EndIsStartPlusDuration ==
  \A r \in Runs : \A i \in 1..Len(records[r]) :
    records[r][i].phase_end_time =
      records[r][i].phase_start_time + records[r][i].phase_duration

\* an asset's phase ended in FAILURE after another asset recorded a phase
\* while it was running
C17_Witness ==
  \E r \in Runs : \E i, j, k \in 1..Len(records[r]) :
    /\ i < j /\ j < k
    /\ records[r][i].asset_id = records[r][k].asset_id
    /\ records[r][j].asset_id # records[r][i].asset_id
    /\ records[r][k].phase_idx = records[r][i].phase_idx + 1
    /\ records[r][k].phase_outcome = "FAILURE"
    /\ records[r][j].phase_end_time > records[r][k].phase_start_time
    /\ records[r][j].phase_end_time < records[r][k].phase_end_time

\* the record lists of the runs collected first, ..., n-th, one after another
BlocksUpTo(n) ==
  LET blocks[i \in 0..Len(all_results)] ==
        IF i = 0 THEN <<>>
        ELSE blocks[i - 1] \o
             records[CHOOSE r \in Runs :
                       replication_id[r] = all_results[i].replication]
  IN blocks[n]

\* C18: in the merged table the rows of one replication are never separated
\* by a row of another, and the table is the record lists of the collected
\* replications, each in its emission order, in the order of collection.
C18_ContiguousBlocks ==
  /\ \A i, j, k \in 1..Len(all_records) :
       (i < j /\ j < k /\ all_records[i].replication = all_records[k].replication)
         => all_records[j].replication = all_records[i].replication
  /\ all_records = BlocksUpTo(Len(all_results))

\* the batch has ended; the replication submitted last was collected first,
\* and two replications contributed several rows each
C18_Witness ==
  /\ main_pc = "done"
  /\ all_results[1].replication # 1
  /\ \E r, q \in Runs :
       r # q /\ Len(records[r]) >= 2 /\ Len(records[q]) >= 2

\* the entry of asset a in the results of run r has the phases of a's
\* records and, for each, the times and the outcome of the record
EntryMatchesRecords(r, a) ==
  LET s == RecsOf(r, a)
      entry == results[r][a]
  IN /\ DOMAIN entry = {s[k].phase : k \in 1..Len(s)}
     /\ \A k \in 1..Len(s) :
          entry[s[k].phase] = [start_time |-> s[k].phase_start_time,
                               end_time |-> s[k].phase_end_time,
                               outcome |-> s[k].phase_outcome]

\* C19: when run_simulation returns, results has one entry for each asset
\* id 1..num_assets; an entry is written when its asset terminates, never
\* before and never again; and it holds exactly the phases of the asset's
\* records with their start time, end time and outcome.
C19_ResultsMatchRecords ==
  /\ [](\A r \in Runs :
          /\ rpc[r] = "returned" => DOMAIN results[r] = 1..num_assets[r]
          /\ \A a \in DOMAIN gen[r] :
               a \in DOMAIN results[r] <=> gen[r][a].pc = "done"
          /\ \A a \in DOMAIN results[r] : EntryMatchesRecords(r, a))
  /\ [][\A r \in Runs :
          /\ \A a \in DOMAIN results[r] :
               /\ a \in DOMAIN results'[r]
               /\ results'[r][a] = results[r][a]
               /\ RecsOf(r, a)' = RecsOf(r, a)
          /\ \A a \in DOMAIN results'[r] \ DOMAIN results[r] :
               gen[r][a].pc # "done" /\ gen'[r][a].pc = "done"]_vars

\* a run has returned in which asset 2 failed in its second phase or later
\* and asset 1 passed the last phase
C19_Witness ==
  \E r \in Runs :
    /\ rpc[r] = "returned"
    /\ num_assets[r] >= 2
    /\ Cardinality(DOMAIN results[r][1]) = Len(phases)
    /\ Cardinality(DOMAIN results[r][2]) >= 2
    /\ Cardinality(DOMAIN results[r][2]) < Len(phases)

=============================================================================
